---- MODULE Spec2Model ----
(***************************************************************************)
(* Model of preload/vfs-virtual.ts: the interception layer that keeps the  *)
(* plan files of ~/.claude/plans in an in-memory Map and forwards every    *)
(* other path to the original node:fs functions.                           *)
(*                                                                         *)
(* Strings (paths, file contents) are sequences of one-character strings,  *)
(* so that String.prototype.startsWith, .length and path.resolve are       *)
(* computed and not assumed.  Date.now() timestamps are left out of the    *)
(* events: no modelled decision reads them.                                *)
(***************************************************************************)
EXTENDS Naturals, Sequences, FiniteSets, TLC

\* ------------------------------------------------------------------ bounds
\* Number of fs calls made by the program in one run.
MaxOps == 3

\* Number of those calls that may be writes of data of any kind.
MaxDataOps == 2

\* Longest string tried as a path by the classifier runs, and the number of
\* calls after which such a run classifies no more.
MaxPathLen == 4

MaxClassifyOps == 2

\* ------------------------------------------------------------- JS values
Str(s) == [type |-> "string", str |-> s]
Buf(s) == [type |-> "buffer", bytes |-> s]

IsString(v) == v.type = "string"

\* UTF-8.  Characters outside ASCII are written by their code point.
AsciiChars ==
    {"x", "y", "z", "[", "]", " ", "O", "b", "c", "e", "j", "o", "t"}

\* Buffer.from(s, "utf-8"), one character
EncodeChar(c) ==
    CASE c = "x" -> <<120>>
      [] c = "y" -> <<121>>
      [] c = "z" -> <<122>>
      [] c = "[" -> <<91>>
      [] c = "]" -> <<93>>
      [] c = " " -> <<32>>
      [] c = "O" -> <<79>>
      [] c = "b" -> <<98>>
      [] c = "c" -> <<99>>
      [] c = "e" -> <<101>>
      [] c = "j" -> <<106>>
      [] c = "o" -> <<111>>
      [] c = "t" -> <<116>>
      [] c = "U+00E9" -> <<195, 169>>
      [] c = "U+FFFD" -> <<239, 191, 189>>

RECURSIVE Utf8Encode(_)
Utf8Encode(s) ==
    IF s = <<>> THEN <<>> ELSE EncodeChar(Head(s)) \o Utf8Encode(Tail(s))

Chr(b) == CHOOSE c \in AsciiChars : EncodeChar(c) = <<b>>

TwoByteChar(b1, b2) ==
    CHOOSE c \in {"U+00E9"} : EncodeChar(c) = <<b1, b2>>

\* Buffer.prototype.toString("utf-8"): a byte below 128 is its character, a
\* lead byte followed by a continuation byte is one character, and a byte
\* that starts no valid sequence becomes U+FFFD.
RECURSIVE Utf8Decode(_)
Utf8Decode(bytes) ==
    IF bytes = <<>> THEN <<>>
    ELSE IF bytes[1] < 128
    THEN <<Chr(bytes[1])>> \o Utf8Decode(Tail(bytes))
    ELSE IF bytes[1] \in 194..223 /\ Len(bytes) >= 2 /\ bytes[2] \in 128..191
    THEN <<TwoByteChar(bytes[1], bytes[2])>> \o Utf8Decode(Tail(Tail(bytes)))
    ELSE <<"U+FFFD">> \o Utf8Decode(Tail(bytes))

\* ---------------------------------------------------------- node:path
\* process.cwd() of the run, "/w".
Cwd == <<"/", "w">>

RECURSIVE SplitFrom(_, _, _, _)
SplitFrom(s, i, cur, acc) ==
    IF i > Len(s) THEN Append(acc, cur)
    ELSE IF s[i] = "/" THEN SplitFrom(s, i + 1, <<>>, Append(acc, cur))
    ELSE SplitFrom(s, i + 1, Append(cur, s[i]), acc)

\* The segments of s between the "/" separators (empty segments included).
Segments(s) == SplitFrom(s, 1, <<>>, <<>>)

RECURSIVE NormFrom(_, _, _)
NormFrom(segs, i, acc) ==
    IF i > Len(segs) THEN acc
    ELSE IF segs[i] = <<>> \/ segs[i] = <<".">> THEN NormFrom(segs, i + 1, acc)
    ELSE IF segs[i] = <<".", ".">>
         THEN NormFrom(segs, i + 1,
                       IF Len(acc) = 0 THEN acc ELSE SubSeq(acc, 1, Len(acc) - 1))
    ELSE NormFrom(segs, i + 1, Append(acc, segs[i]))

RECURSIVE JoinFrom(_, _)
JoinFrom(segs, i) ==
    IF i > Len(segs) THEN <<>>
    ELSE <<"/">> \o segs[i] \o JoinFrom(segs, i + 1)

\* path.resolve(p) of a string p, computed: absolute, "." and ".." and empty
\* segments resolved, no trailing separator.
ResolveString(p) ==
    LET abs  == IF Len(p) > 0 /\ p[1] = "/" THEN p ELSE Cwd \o <<"/">> \o p
        segs == NormFrom(Segments(abs), 1, <<>>)
    IN  IF Len(segs) = 0 THEN <<"/">> ELSE JoinFrom(segs, 1)

\* path.basename(p) of a resolved path, computed.
BasenameString(p) ==
    LET segs == NormFrom(Segments(p), 1, <<>>)
    IN  IF Len(segs) = 0 THEN <<>> ELSE segs[Len(segs)]

\* String.prototype.startsWith
StartsWith(s, prefix) ==
    Len(s) >= Len(prefix) /\ SubSeq(s, 1, Len(prefix)) = prefix

\* ------------------------------------------------------------ constants
\* path.join(HOME, ".claude", "plans"), written "/p".
PLANS_DIR == <<"/", "p">>

\* ------------------------------------------------------------ inputs
\* Two plan files, a second spelling of the first, and a file outside the
\* plans directory.
PA  == Str(<<"/", "p", "/", "a">>)
PA2 == Str(<<"/", "p", "/", ".", "/", "a">>)
PB  == Str(<<"/", "p", "/", "b">>)
PR  == Str(<<"/", "r">>)

Paths == {PA, PA2, PB, PR}

\* The characters of the strings tried as paths by the classifier runs: with
\* "/p" the plans directory, "/pa" is a sibling whose name extends it and
\* "/p/a" a plan file.
PathAlphabet == {"/", ".", "p", "a"}

ShortStrings == UNION {[1..n -> PathAlphabet] : n \in 0..MaxPathLen}

\* The strings the runs pass as paths, and ResolveString and BasenameString
\* tabulated over them (each is computed once).
PathStrings == {p.str : p \in Paths}

ResolveTable == [p \in PathStrings |-> ResolveString(p)]

BasenameTable == [p \in {ResolveTable[q] : q \in PathStrings} |-> BasenameString(p)]

ShortTable == [p \in ShortStrings |-> ResolveString(p)]

Resolve(p) ==
    IF p \in PathStrings THEN ResolveTable[p]
    ELSE IF p \in DOMAIN ShortTable THEN ShortTable[p]
    ELSE ResolveString(p)

Basename(p) == IF p \in DOMAIN BasenameTable THEN BasenameTable[p] ELSE BasenameString(p)

\* isVirtualPath with a test that respects path segments.
isVirtualPath_segmentAware(filePath) ==
    IF ~IsString(filePath) \/ filePath.str = <<>> THEN FALSE
    ELSE \/ Resolve(filePath.str) = PLANS_DIR
         \/ StartsWith(Resolve(filePath.str), PLANS_DIR \o <<"/">>)

\* Helper to check if path is in plans directory
isVirtualPath(filePath) ==
    IF ~IsString(filePath) \/ filePath.str = <<>> THEN FALSE
    ELSE StartsWith(Resolve(filePath.str), PLANS_DIR)

Texts == {<<>>, <<"x">>, <<"y", "z">>}

DataValues == {Str(t) : t \in Texts}

\* ------------------------------------------------------------ maps
EmptyMap == [k \in {} |-> <<>>]

MapSet(m, k, v) == [x \in DOMAIN m \cup {k} |-> IF x = k THEN v ELSE m[x]]

MapDelete(m, k) == [x \in DOMAIN m \ {k} |-> m[x]]

\* Map.prototype.get: the value, or undefined.
MapGet(m, k) ==
    IF k \in DOMAIN m THEN Str(m[k]) ELSE [type |-> "undefined"]

\* JS truthiness of a string-or-undefined value.
Truthy(v) == IsString(v) /\ v.str # <<>>

\* ------------------------------------------------------------ state
VARIABLES
    virtualFiles,   \* the Map<string, string> of plan files, by resolved path
    disk,           \* the real filesystem: resolved path -> content
    processSend,    \* TRUE iff process.send exists (an IPC channel)
    events,         \* the messages passed to process.send, oldest first
    last,           \* the last fs call: arguments, outcome, messages, original fs calls
    nops,           \* number of fs calls made so far
    ticks,          \* the process.nextTick queue: callbacks with their arguments
    pending,        \* requests the real fs.writeFile / fs.readFile have in progress
    ran             \* the callbacks run so far, with the arguments they were given

vars == <<virtualFiles, disk, processSend, events, last, nops, ticks, pending, ran>>

\* Other JS values: undefined, null, a function (callbacks are told apart by
\* id), an Error with err.code set, and the encoding name "utf-8".
Undefined == [type |-> "undefined"]
Null == [type |-> "null"]
Fn(id) == [type |-> "function", id |-> id]
ErrorValue(code) == [type |-> "error", code |-> code]
Utf8 == [type |-> "string", str |-> <<"u", "t", "f", "-", "8">>]

\* typeof options === "string" ? options : options?.encoding, as a condition
HasEncoding(options) == options.type = "string" /\ options.str # <<>>

\* One callback invocation: process.nextTick(callback, ...args) queues it.
Invocation(callback, args) == [callback |-> callback, args |-> args]

\* ------------------------------------------------------------ outcomes
ReturnUndefined == [kind |-> "return", type |-> "undefined"]
ReturnString(s) == [kind |-> "return", type |-> "string", str |-> s]
ReturnBuffer(s) == [kind |-> "return", type |-> "buffer", bytes |-> s]
ReturnBoolean(b) == [kind |-> "return", type |-> "boolean", bool |-> b]
ReturnStats(st) == [kind |-> "return", type |-> "stats", stats |-> st]
\* An Error with err.code set; by says which filesystem raised it.
Throw(code, syscall, by) ==
    [kind |-> "throw", code |-> code, syscall |-> syscall, by |-> by]

Threw(r) == r.kind = "throw"

\* One call of an original node:fs function, with its outcome.
OrigCall(fn, args, ret) == [fn |-> fn, args |-> args, ret |-> ret]

\* What a handler did: the Map and the disk it leaves, the messages it sent,
\* its outcome and the original functions it called.
Effect(vf, dk, ev, ret, orig) ==
    [vf |-> vf, dk |-> dk, ev |-> ev, ret |-> ret, orig |-> orig]

\* if (process.send) process.send(msg), where send says process.send exists
SendOn(send, msg) == IF send THEN <<msg>> ELSE <<>>

Send(msg) == SendOn(processSend, msg)

\* ------------------------------------------------- the real filesystem
\* The original fs functions on the disk dk.  A path names the entry of its
\* resolved form.  Each gives [dk, ret].  A write always succeeds, a read,
\* stat or rename fails only with ENOENT, an unlink also when refused.
orig_writeFileSync(dk, filePath, content) ==
    [dk |-> MapSet(dk, Resolve(filePath.str), content), ret |-> ReturnUndefined]

orig_readFileSync(dk, filePath, encoding) ==
    LET n == Resolve(filePath.str)
    IN  IF n \notin DOMAIN dk
        THEN [dk |-> dk, ret |-> Throw("ENOENT", "open", "disk")]
        ELSE [dk |-> dk,
              ret |-> IF encoding THEN ReturnString(dk[n]) ELSE ReturnBuffer(Utf8Encode(dk[n]))]

\* unlink(2); denied says the system refuses to remove an existing entry.
orig_unlinkSync(dk, filePath, denied) ==
    LET n == Resolve(filePath.str)
    IN  IF n \notin DOMAIN dk
        THEN [dk |-> dk, ret |-> Throw("ENOENT", "unlink", "disk")]
        ELSE IF denied
        THEN [dk |-> dk, ret |-> Throw("EPERM", "unlink", "disk")]
        ELSE [dk |-> MapDelete(dk, n), ret |-> ReturnUndefined]

\* rename(2): the entry moves, replacing what the new path held.
orig_renameSync(dk, oldPath, newPath) ==
    LET o == Resolve(oldPath.str)
        n == Resolve(newPath.str)
    IN  IF o \notin DOMAIN dk
        THEN [dk |-> dk, ret |-> Throw("ENOENT", "rename", "disk")]
        ELSE [dk |-> MapSet(MapDelete(dk, o), n, dk[o]), ret |-> ReturnUndefined]

orig_existsSync(dk, filePath) ==
    [dk |-> dk, ret |-> ReturnBoolean(Resolve(filePath.str) \in DOMAIN dk)]

\* Math.ceil(n / 512)
CeilDiv512(n) == (n + 511) \div 512

\* Stats whose block count is rounded down.
Stats_floorBlocks(size) ==
    [size |-> size, blocks |-> size \div 512, isFile |-> TRUE, isDirectory |-> FALSE]

Stats(size) ==
    [size |-> size, blocks |-> CeilDiv512(size), isFile |-> TRUE, isDirectory |-> FALSE]

orig_statSync(dk, filePath) ==
    LET n == Resolve(filePath.str)
    IN  IF n \notin DOMAIN dk
        THEN [dk |-> dk, ret |-> Throw("ENOENT", "stat", "disk")]
        ELSE [dk |-> dk, ret |-> ReturnStats(Stats(Len(dk[n])))]

\* The original asynchronous functions: a call without a callback function
\* raises a TypeError; otherwise the request is started and completes later.
\* Each gives [ret, io].
orig_writeFile(filePath, data, options, callback) ==
    IF callback.type # "function"
    THEN [ret |-> Throw("ERR_INVALID_ARG_TYPE", "writeFile", "disk"), io |-> <<>>]
    ELSE [ret |-> ReturnUndefined,
          io |-> <<[fn |-> "writeFile", path |-> filePath, data |-> data,
                    encoding |-> FALSE, callback |-> callback]>>]

orig_readFile(filePath, options, callback) ==
    IF callback.type # "function"
    THEN [ret |-> Throw("ERR_INVALID_ARG_TYPE", "readFile", "disk"), io |-> <<>>]
    ELSE [ret |-> ReturnUndefined,
          io |-> <<[fn |-> "readFile", path |-> filePath, data |-> Undefined,
                    encoding |-> HasEncoding(options), callback |-> callback]>>]

\* ------------------------------------------------------------ messages
VfsWrite(normalized, content) ==
    [type |-> "vfs_write", path |-> normalized, filename |-> Basename(normalized),
     content |-> content, size |-> Len(content)]

\* A plan_file_write message that leaves the content out.
PlanFileWrite_noContent(normalized, content) ==
    [type |-> "plan_file_write", path |-> normalized, filename |-> Basename(normalized),
     content |-> <<>>, size |-> 0]

PlanFileWrite(normalized, content) ==
    [type |-> "plan_file_write", path |-> normalized, filename |-> Basename(normalized),
     content |-> content, size |-> Len(content)]

VfsRead(normalized, content) ==
    [type |-> "vfs_read", path |-> normalized, filename |-> Basename(normalized),
     size |-> Len(content)]

VfsUnlink(normalized) ==
    [type |-> "vfs_unlink", path |-> normalized, filename |-> Basename(normalized)]

VfsError(operation, normalized, error) ==
    [type |-> "vfs_error", operation |-> operation, path |-> normalized, error |-> error]

VfsInit ==
    [type |-> "vfs_init", plansDir |-> PLANS_DIR, mode |-> "virtual"]

\* ------------------------------------------------------------ handlers
\* Object.prototype.toString(): "[object Object]"
ObjectString ==
    <<"[", "o", "b", "j", "e", "c", "t", " ", "O", "b", "j", "e", "c", "t", "]">>

\* data?.toString("utf-8") raises a RangeError for a number: the argument of
\* Number.prototype.toString is a radix.
ToContentThrows(data) == data.type = "number"

\* typeof data === "string" ? data : data?.toString("utf-8") || ""
ToContent(data) ==
    IF data.type = "string" THEN data.str
    ELSE IF data.type = "buffer" THEN Utf8Decode(data.bytes)
    ELSE IF data.type = "object" THEN ObjectString
    ELSE <<>>

\* fs.writeFileSync that keeps a copy in the Map of what it forwards to disk.
fs_writeFileSync_alwaysStores(filePath, data) ==
    IF isVirtualPath(filePath)
    THEN IF ToContentThrows(data)
         THEN Effect(virtualFiles, disk, <<>>, Throw("RangeError", "toString", "vfs"), <<>>)
         ELSE
         LET content    == ToContent(data)
             normalized == Resolve(filePath.str)
         IN  Effect(MapSet(virtualFiles, normalized, content), disk,
                    Send(VfsWrite(normalized, content)), ReturnUndefined, <<>>)
    ELSE LET r == orig_writeFileSync(disk, filePath, ToContent(data))
         IN  Effect(MapSet(virtualFiles, Resolve(filePath.str), ToContent(data)), r.dk,
                    <<>>, r.ret, <<OrigCall("writeFileSync", <<filePath, data>>, r.ret)>>)

fs_writeFileSyncOn(send, filePath, data) ==
    IF isVirtualPath(filePath)
    THEN IF ToContentThrows(data)
         THEN Effect(virtualFiles, disk, <<>>, Throw("RangeError", "toString", "vfs"), <<>>)
         ELSE
         LET content    == ToContent(data)
             normalized == Resolve(filePath.str)
         IN  Effect(MapSet(virtualFiles, normalized, content), disk,
                    SendOn(send, VfsWrite(normalized, content)), ReturnUndefined, <<>>)
    ELSE LET r == orig_writeFileSync(disk, filePath, ToContent(data))
         IN  Effect(virtualFiles, r.dk, <<>>, r.ret,
                    <<OrigCall("writeFileSync", <<filePath, data>>, r.ret)>>)

fs_writeFileSync(filePath, data) ==
    fs_writeFileSyncOn(processSend, filePath, data)

\* options is the encoding "utf-8" or undefined.
fs_readFileSyncOn(send, filePath, options) ==
    IF isVirtualPath(filePath)
    THEN LET normalized == Resolve(filePath.str)
             content    == MapGet(virtualFiles, normalized)
         IN  IF content.type = "undefined"
             THEN Effect(virtualFiles, disk, <<>>, Throw("ENOENT", "open", "vfs"), <<>>)
             ELSE Effect(virtualFiles, disk, SendOn(send, VfsRead(normalized, content.str)),
                         IF HasEncoding(options) THEN ReturnString(content.str)
                                    ELSE ReturnBuffer(Utf8Encode(content.str)),
                         <<>>)
    ELSE LET r == orig_readFileSync(disk, filePath, HasEncoding(options))
         IN  Effect(virtualFiles, r.dk, <<>>, r.ret,
                    <<OrigCall("readFileSync", <<filePath, options>>, r.ret)>>)

fs_readFileSync(filePath, options) ==
    fs_readFileSyncOn(processSend, filePath, options)

\* What an asynchronous handler did: its effect before it returns, the
\* callbacks it queued with process.nextTick and the requests it handed to
\* the real filesystem.
AsyncEffect(eff, tick, io) == [eff |-> eff, tick |-> tick, io |-> io]

\* if (typeof options === "function") { callback = options; options = undefined; }
CallbackOf(options, callback) ==
    IF options.type = "function" THEN options ELSE callback

OptionsOf(options) ==
    IF options.type = "function" THEN Undefined ELSE options

\* fs.writeFile that queues its callback twice.
fs_writeFileOn_callbackTwice(send, filePath, data, options, callback) ==
    LET cb   == CallbackOf(options, callback)
        opts == OptionsOf(options)
    IN  IF isVirtualPath(filePath)
        THEN IF ToContentThrows(data)
             THEN AsyncEffect(Effect(virtualFiles, disk, <<>>,
                                     Throw("RangeError", "toString", "vfs"), <<>>),
                              <<>>, <<>>)
             ELSE
             LET content    == ToContent(data)
                 normalized == Resolve(filePath.str)
             IN  AsyncEffect(Effect(MapSet(virtualFiles, normalized, content), disk,
                                    SendOn(send, VfsWrite(normalized, content)),
                                    ReturnUndefined, <<>>),
                             IF cb.type = "function"
                             THEN <<Invocation(cb, <<Null>>), Invocation(cb, <<Null>>)>>
                             ELSE <<>>,
                             <<>>)
        ELSE LET r == orig_writeFile(filePath, data, opts, cb)
             IN  AsyncEffect(Effect(virtualFiles, disk, <<>>, r.ret,
                                    <<OrigCall("writeFile", <<filePath, data, opts, cb>>,
                                               r.ret)>>),
                             <<>>, r.io)

fs_writeFileOn(send, filePath, data, options, callback) ==
    LET cb   == CallbackOf(options, callback)
        opts == OptionsOf(options)
    IN  IF isVirtualPath(filePath)
        THEN IF ToContentThrows(data)
             THEN AsyncEffect(Effect(virtualFiles, disk, <<>>,
                                     Throw("RangeError", "toString", "vfs"), <<>>),
                              <<>>, <<>>)
             ELSE
             LET content    == ToContent(data)
                 normalized == Resolve(filePath.str)
             IN  AsyncEffect(Effect(MapSet(virtualFiles, normalized, content), disk,
                                    SendOn(send, VfsWrite(normalized, content)),
                                    ReturnUndefined, <<>>),
                             IF cb.type = "function"
                             THEN <<Invocation(cb, <<Null>>)>>
                             ELSE <<>>,
                             <<>>)
        ELSE LET r == orig_writeFile(filePath, data, opts, cb)
             IN  AsyncEffect(Effect(virtualFiles, disk, <<>>, r.ret,
                                    <<OrigCall("writeFile", <<filePath, data, opts, cb>>,
                                               r.ret)>>),
                             <<>>, r.io)

fs_writeFile(filePath, data, options, callback) ==
    fs_writeFileOn(processSend, filePath, data, options, callback)

\* fs.readFile that reports a missing document as callback(err, undefined)
\* and announces the read all the same.
fs_readFileOn_errAndContent(send, filePath, options, callback) ==
    LET cb   == CallbackOf(options, callback)
        opts == OptionsOf(options)
    IN  IF isVirtualPath(filePath)
        THEN LET normalized == Resolve(filePath.str)
                 content    == MapGet(virtualFiles, normalized)
             IN  IF content.type = "undefined"
                 THEN AsyncEffect(Effect(virtualFiles, disk,
                                         SendOn(send, VfsRead(normalized, <<>>)),
                                         ReturnUndefined, <<>>),
                                  IF cb.type = "function"
                                  THEN <<Invocation(cb, <<ErrorValue("ENOENT"), Undefined>>)>>
                                  ELSE <<>>,
                                  <<>>)
                 ELSE LET result == IF HasEncoding(opts) THEN Str(content.str)
                                                         ELSE Buf(Utf8Encode(content.str))
                      IN  AsyncEffect(Effect(virtualFiles, disk,
                                             SendOn(send, VfsRead(normalized, content.str)),
                                             ReturnUndefined, <<>>),
                                      IF cb.type = "function"
                                      THEN <<Invocation(cb, <<Null, result>>)>>
                                      ELSE <<>>,
                                      <<>>)
        ELSE LET r == orig_readFile(filePath, opts, cb)
             IN  AsyncEffect(Effect(virtualFiles, disk, <<>>, r.ret,
                                    <<OrigCall("readFile", <<filePath, opts, cb>>, r.ret)>>),
                             <<>>, r.io)

\* fs.readFile that hands over the content but does not announce the read.
fs_readFileOn_unannounced(send, filePath, options, callback) ==
    LET cb   == CallbackOf(options, callback)
        opts == OptionsOf(options)
    IN  IF isVirtualPath(filePath)
        THEN LET normalized == Resolve(filePath.str)
                 content    == MapGet(virtualFiles, normalized)
             IN  IF content.type = "undefined"
                 THEN AsyncEffect(Effect(virtualFiles, disk, <<>>, ReturnUndefined, <<>>),
                                  IF cb.type = "function"
                                  THEN <<Invocation(cb, <<ErrorValue("ENOENT")>>)>>
                                  ELSE <<>>,
                                  <<>>)
                 ELSE LET result == IF HasEncoding(opts) THEN Str(content.str)
                                                         ELSE Buf(Utf8Encode(content.str))
                      IN  AsyncEffect(Effect(virtualFiles, disk, <<>>, ReturnUndefined, <<>>),
                                      IF cb.type = "function"
                                      THEN <<Invocation(cb, <<Null, result>>)>>
                                      ELSE <<>>,
                                      <<>>)
        ELSE LET r == orig_readFile(filePath, opts, cb)
             IN  AsyncEffect(Effect(virtualFiles, disk, <<>>, r.ret,
                                    <<OrigCall("readFile", <<filePath, opts, cb>>, r.ret)>>),
                             <<>>, r.io)

fs_readFileOn(send, filePath, options, callback) ==
    LET cb   == CallbackOf(options, callback)
        opts == OptionsOf(options)
    IN  IF isVirtualPath(filePath)
        THEN LET normalized == Resolve(filePath.str)
                 content    == MapGet(virtualFiles, normalized)
             IN  IF content.type = "undefined"
                 THEN AsyncEffect(Effect(virtualFiles, disk, <<>>, ReturnUndefined, <<>>),
                                  IF cb.type = "function"
                                  THEN <<Invocation(cb, <<ErrorValue("ENOENT")>>)>>
                                  ELSE <<>>,
                                  <<>>)
                 ELSE LET result == IF HasEncoding(opts) THEN Str(content.str)
                                                         ELSE Buf(Utf8Encode(content.str))
                      IN  AsyncEffect(Effect(virtualFiles, disk,
                                             SendOn(send, VfsRead(normalized, content.str)),
                                             ReturnUndefined, <<>>),
                                      IF cb.type = "function"
                                      THEN <<Invocation(cb, <<Null, result>>)>>
                                      ELSE <<>>,
                                      <<>>)
        ELSE LET r == orig_readFile(filePath, opts, cb)
             IN  AsyncEffect(Effect(virtualFiles, disk, <<>>, r.ret,
                                    <<OrigCall("readFile", <<filePath, opts, cb>>, r.ret)>>),
                             <<>>, r.io)

fs_readFile(filePath, options, callback) ==
    fs_readFileOn(processSend, filePath, options, callback)

\* fs.existsSync that asks the disk when the Map has no key.
fs_existsSync_diskFallback(filePath) ==
    IF isVirtualPath(filePath) /\ Resolve(filePath.str) \in DOMAIN virtualFiles
    THEN Effect(virtualFiles, disk, <<>>, ReturnBoolean(TRUE), <<>>)
    ELSE LET r == orig_existsSync(disk, filePath)
         IN  Effect(virtualFiles, r.dk, <<>>, r.ret, <<OrigCall("existsSync", <<filePath>>, r.ret)>>)

fs_existsSync(filePath) ==
    IF isVirtualPath(filePath)
    THEN Effect(virtualFiles, disk, <<>>,
                ReturnBoolean(Resolve(filePath.str) \in DOMAIN virtualFiles), <<>>)
    ELSE LET r == orig_existsSync(disk, filePath)
         IN  Effect(virtualFiles, r.dk, <<>>, r.ret, <<OrigCall("existsSync", <<filePath>>, r.ret)>>)

fs_statSync(filePath) ==
    IF isVirtualPath(filePath)
    THEN LET normalized == Resolve(filePath.str)
             content    == MapGet(virtualFiles, normalized)
         IN  IF content.type = "undefined"
             THEN Effect(virtualFiles, disk, <<>>, Throw("ENOENT", "stat", "vfs"), <<>>)
             ELSE Effect(virtualFiles, disk, <<>>,
                         ReturnStats(Stats(Len(content.str))), <<>>)
    ELSE LET r == orig_statSync(disk, filePath)
         IN  Effect(virtualFiles, r.dk, <<>>, r.ret, <<OrigCall("statSync", <<filePath>>, r.ret)>>)

\* fs.unlinkSync that reports the delete but keeps the key in the Map.
fs_unlinkSync_keepsKey(filePath, denied) ==
    IF isVirtualPath(filePath)
    THEN LET normalized == Resolve(filePath.str)
         IN  IF normalized \notin DOMAIN virtualFiles
             THEN Effect(virtualFiles, disk, <<>>, Throw("ENOENT", "unlink", "vfs"), <<>>)
             ELSE Effect(virtualFiles, disk, Send(VfsUnlink(normalized)),
                         ReturnUndefined, <<>>)
    ELSE LET r == orig_unlinkSync(disk, filePath, denied)
         IN  Effect(virtualFiles, r.dk, <<>>, r.ret, <<OrigCall("unlinkSync", <<filePath>>, r.ret)>>)

\* fs.unlinkSync that returns quietly when the key is absent.
fs_unlinkSync_quietOnAbsent(filePath, denied) ==
    IF isVirtualPath(filePath)
    THEN LET normalized == Resolve(filePath.str)
         IN  IF normalized \notin DOMAIN virtualFiles
             THEN Effect(virtualFiles, disk, <<>>, ReturnUndefined, <<>>)
             ELSE Effect(MapDelete(virtualFiles, normalized), disk,
                         Send(VfsUnlink(normalized)), ReturnUndefined, <<>>)
    ELSE LET r == orig_unlinkSync(disk, filePath, denied)
         IN  Effect(virtualFiles, r.dk, <<>>, r.ret, <<OrigCall("unlinkSync", <<filePath>>, r.ret)>>)

\* fs.unlinkSync that removes the key only when it can report the delete.
fs_unlinkSyncOn_deletesWhenSent(send, filePath, denied) ==
    IF isVirtualPath(filePath)
    THEN LET normalized == Resolve(filePath.str)
             existed    == normalized \in DOMAIN virtualFiles
         IN  IF ~existed
             THEN Effect(virtualFiles, disk, <<>>, Throw("ENOENT", "unlink", "vfs"), <<>>)
             ELSE Effect(IF send THEN MapDelete(virtualFiles, normalized) ELSE virtualFiles,
                         disk, SendOn(send, VfsUnlink(normalized)), ReturnUndefined, <<>>)
    ELSE LET r == orig_unlinkSync(disk, filePath, denied)
         IN  Effect(virtualFiles, r.dk, <<>>, r.ret, <<OrigCall("unlinkSync", <<filePath>>, r.ret)>>)

\* denied: whether the system refuses a real unlink in this call.
fs_unlinkSyncOn(send, filePath, denied) ==
    IF isVirtualPath(filePath)
    THEN LET normalized == Resolve(filePath.str)
             existed    == normalized \in DOMAIN virtualFiles
         IN  IF ~existed
             THEN Effect(MapDelete(virtualFiles, normalized), disk, <<>>,
                         Throw("ENOENT", "unlink", "vfs"), <<>>)
             ELSE Effect(MapDelete(virtualFiles, normalized), disk,
                         SendOn(send, VfsUnlink(normalized)), ReturnUndefined, <<>>)
    ELSE LET r == orig_unlinkSync(disk, filePath, denied)
         IN  Effect(virtualFiles, r.dk, <<>>, r.ret, <<OrigCall("unlinkSync", <<filePath>>, r.ret)>>)

fs_unlinkSync(filePath, denied) ==
    fs_unlinkSyncOn(processSend, filePath, denied)

\* A rename that stores any content it got, whatever the target.
RenameStores_anyTarget(content, newVirtual) == Truthy(content)

\* if (content && newVirtual)
RenameStores(content, newVirtual) == Truthy(content) /\ newVirtual

\* The source of a rename: [content, vf, dk, ev, orig, ret], ret set when the
\* read of the old path raised.
RenameSourceOn(send, oldPath, oldVirtual, denied) ==
    LET oldNormalized == Resolve(oldPath.str)
    IN  IF oldVirtual
        THEN [content |-> MapGet(virtualFiles, oldNormalized),
              vf |-> MapDelete(virtualFiles, oldNormalized), dk |-> disk,
              ev |-> <<>>, orig |-> <<>>, ret |-> ReturnUndefined]
        ELSE LET rd == orig_readFileSync(disk, oldPath, TRUE)
                 ul == orig_unlinkSync(disk, oldPath, denied)
             IN  IF Threw(rd.ret)
                 THEN [content |-> [type |-> "undefined"], vf |-> virtualFiles,
                       dk |-> disk, ev |-> <<>>,
                       orig |-> <<OrigCall("readFileSync", <<oldPath, Utf8>>, rd.ret)>>,
                       ret |-> rd.ret]
                 ELSE [content |-> Str(rd.ret.str), vf |-> virtualFiles, dk |-> ul.dk,
                       ev |-> IF Threw(ul.ret)
                              THEN SendOn(send, VfsError("renameSync_unlink", oldNormalized,
                                                 ul.ret.code))
                              ELSE <<>>,
                       orig |-> <<OrigCall("readFileSync", <<oldPath, Utf8>>, rd.ret),
                                  OrigCall("unlinkSync", <<oldPath>>, ul.ret)>>,
                       ret |-> ReturnUndefined]

RenameSource(oldPath, oldVirtual, denied) ==
    RenameSourceOn(processSend, oldPath, oldVirtual, denied)

fs_renameSyncOn(send, oldPath, newPath, denied) ==
    LET oldVirtual == isVirtualPath(oldPath)
        newVirtual == isVirtualPath(newPath)
    IN  IF oldVirtual \/ newVirtual
        THEN LET newNormalized == Resolve(newPath.str)
                 src == RenameSourceOn(send, oldPath, oldVirtual, denied)
             IN  IF Threw(src.ret)
                 THEN Effect(src.vf, src.dk, src.ev, src.ret, src.orig)
                 ELSE IF RenameStores(src.content, newVirtual)
                 THEN Effect(MapSet(src.vf, newNormalized, src.content.str), src.dk,
                             src.ev \o SendOn(send, PlanFileWrite(newNormalized, src.content.str)),
                             ReturnUndefined, src.orig)
                 ELSE LET r == orig_renameSync(src.dk, oldPath, newPath)
                      IN  Effect(src.vf, r.dk, src.ev, r.ret,
                                 Append(src.orig,
                                        OrigCall("renameSync", <<oldPath, newPath>>, r.ret)))
        ELSE LET r == orig_renameSync(disk, oldPath, newPath)
             IN  Effect(virtualFiles, r.dk, <<>>, r.ret,
                        <<OrigCall("renameSync", <<oldPath, newPath>>, r.ret)>>)

fs_renameSync(oldPath, newPath, denied) ==
    fs_renameSyncOn(processSend, oldPath, newPath, denied)

\* ------------------------------------------------------------ the run
\* A call record: the function, its arguments, what it did.
Call(op, args, eff) ==
    [op |-> op, args |-> args, ret |-> eff.ret, orig |-> eff.orig, ev |-> eff.ev]

NoCall == [op |-> "none", args |-> <<>>, ret |-> ReturnUndefined, orig |-> <<>>, ev |-> <<>>]

\* The program calls op(args); the handler's effect becomes the state.
Do(op, args, eff) ==
    /\ nops < MaxOps
    /\ virtualFiles' = eff.vf
    /\ disk' = eff.dk
    /\ events' = events \o eff.ev
    /\ last' = Call(op, args, eff)
    /\ nops' = nops + 1
    /\ UNCHANGED <<processSend, ticks, pending, ran>>

\* A plan file left on disk by an earlier run, or nothing.
InitialDisks == {EmptyMap, MapSet(EmptyMap, Resolve(PA.str), <<"x">>)}

\* A preload that sends no init message.
InitMessages_none == <<>>

\* Send init message via IPC
InitMessages == Send(VfsInit)

\* The state once the preload module has run: the Map is empty and vfs_init
\* was sent if there is a channel.
Init ==
    /\ virtualFiles = EmptyMap
    /\ disk \in InitialDisks
    /\ processSend \in BOOLEAN
    /\ events = InitMessages
    /\ last = NoCall
    /\ nops = 0
    /\ ticks = <<>>
    /\ pending = <<>>
    /\ ran = <<>>

WriteFileSync ==
    \E filePath \in Paths, data \in DataValues :
        Do("writeFileSync", <<filePath, data>>, fs_writeFileSync(filePath, data))

ReadFileSync ==
    \E filePath \in Paths, options \in {Utf8, Undefined} :
        Do("readFileSync", <<filePath, options>>, fs_readFileSync(filePath, options))

RenameSync ==
    \E oldPath \in Paths, newPath \in Paths, denied \in BOOLEAN :
        Do("renameSync", <<oldPath, newPath>>, fs_renameSync(oldPath, newPath, denied))

ExistsSync ==
    \E filePath \in Paths :
        Do("existsSync", <<filePath>>, fs_existsSync(filePath))

StatSync ==
    \E filePath \in Paths :
        Do("statSync", <<filePath>>, fs_statSync(filePath))

UnlinkSync ==
    \E filePath \in Paths, denied \in BOOLEAN :
        Do("unlinkSync", <<filePath>>, fs_unlinkSync(filePath, denied))

Next ==
    \/ WriteFileSync
    \/ ReadFileSync
    \/ RenameSync
    \/ ExistsSync
    \/ StatSync
    \/ UnlinkSync

Spec == Init /\ [][Next]_vars

\* ------------------------------------------- the asynchronous functions
\* The program calls an asynchronous op(args): the handler's effect becomes
\* the state before the call returns; what it queued runs later.
DoAsync(op, args, aeff) ==
    /\ nops < MaxOps
    /\ virtualFiles' = aeff.eff.vf
    /\ disk' = aeff.eff.dk
    /\ events' = events \o aeff.eff.ev
    /\ last' = Call(op, args, aeff.eff)
    /\ nops' = nops + 1
    /\ ticks' = ticks \o aeff.tick
    /\ pending' = pending \o aeff.io
    /\ UNCHANGED <<processSend, ran>>

\* The ways a caller passes options and the callback id: (callback),
\* (undefined, callback), ("utf-8", callback), or no callback at all.
CallbackForms(id) ==
    {<<Fn(id), Undefined>>, <<Undefined, Fn(id)>>, <<Utf8, Fn(id)>>,
     <<Undefined, Undefined>>}

WriteFile ==
    \E filePath \in Paths, data \in DataValues, oc \in CallbackForms(nops + 1) :
        DoAsync("writeFile", <<filePath, data, oc[1], oc[2]>>,
                fs_writeFile(filePath, data, oc[1], oc[2]))

ReadFile ==
    \E filePath \in Paths, oc \in CallbackForms(nops + 1) :
        DoAsync("readFile", <<filePath, oc[1], oc[2]>>,
                fs_readFile(filePath, oc[1], oc[2]))

\* The event loop runs the oldest process.nextTick callback.
RunTick ==
    /\ ticks # <<>>
    /\ ran' = Append(ran, Head(ticks))
    /\ ticks' = Tail(ticks)
    /\ UNCHANGED <<virtualFiles, disk, processSend, events, last, nops, pending>>

\* cb(err) or cb(null, data) for the outcome r of a real read.
ReadCallbackArgs(r) ==
    IF Threw(r.ret) THEN <<ErrorValue(r.ret.code)>>
    ELSE IF r.ret.type = "string" THEN <<Null, Str(r.ret.str)>>
    ELSE <<Null, Buf(r.ret.bytes)>>

\* A request of the real filesystem completes, once the nextTick queue is
\* empty: the disk is written or read and the callback is run.
IoComplete ==
    /\ ticks = <<>>
    /\ \E i \in 1..Len(pending) :
          LET req == pending[i]
              r   == IF req.fn = "writeFile"
                     THEN orig_writeFileSync(disk, req.path, ToContent(req.data))
                     ELSE orig_readFileSync(disk, req.path, req.encoding)
          IN  /\ disk' = r.dk
              /\ ran' = Append(ran, Invocation(req.callback,
                                               IF req.fn = "writeFile" THEN <<Null>>
                                               ELSE ReadCallbackArgs(r)))
              /\ pending' = SubSeq(pending, 1, i - 1) \o SubSeq(pending, i + 1, Len(pending))
    /\ UNCHANGED <<virtualFiles, processSend, events, last, nops, ticks>>

NextAsync ==
    \/ Next
    \/ WriteFile
    \/ ReadFile
    \/ RunTick
    \/ IoComplete

SpecAsync == Init /\ [][NextAsync]_vars

\* ------------------------------------------------ writes of any data
\* A number and a plain object.
Num == [type |-> "number"]
Obj == [type |-> "object"]

\* What a caller may pass as data: text, a Buffer (valid UTF-8 or not, or
\* empty), null, undefined, a number, a plain object.
AllData ==
    DataValues \cup {Buf(<<120>>), Buf(<<195, 169>>), Buf(<<255, 121>>), Buf(<<>>),
                     Null, Undefined, Num, Obj}

WriteData ==
    \E filePath \in {p \in Paths : isVirtualPath(p)}, data \in AllData :
        /\ nops < MaxDataOps
        /\ Do("writeFileSync", <<filePath, data>>, fs_writeFileSync(filePath, data))

WriteDataAsync ==
    \E filePath \in {p \in Paths : isVirtualPath(p)}, data \in AllData,
       oc \in CallbackForms(nops + 1) :
        /\ nops < MaxDataOps
        /\ DoAsync("writeFile", <<filePath, data, oc[1], oc[2]>>,
                   fs_writeFile(filePath, data, oc[1], oc[2]))

NextData ==
    \/ WriteData
    \/ WriteDataAsync
    \/ ReadFileSync
    \/ RunTick

SpecData == Init /\ [][NextData]_vars

\* ---------------------------------------------------- the classifier
\* Every string of up to MaxPathLen characters (the empty string included),
\* the paths of the runs, and values that are not strings.
ClassifyInputs ==
    {Str(q) : q \in ShortStrings} \cup Paths \cup {Null, Undefined, Num, Obj}

\* The program (a handler) calls isVirtualPath(filePath).
Classify ==
    \E filePath \in ClassifyInputs :
        /\ nops < MaxClassifyOps
        /\ Do("isVirtualPath", <<filePath>>,
              Effect(virtualFiles, disk, <<>>, ReturnBoolean(isVirtualPath(filePath)), <<>>))

NextClassify ==
    \/ Classify
    \/ WriteFileSync

SpecClassify == Init /\ [][NextClassify]_vars

\* The event loop does not leave a queued callback or a request waiting for ever.
\* (Each of the two steps changes the queue it takes from.)
FairSpecAsync == SpecAsync /\ WF_ticks(RunTick) /\ WF_pending(IoComplete)

\* ------------------------------------------------------------ vocabulary
VirtualPaths == {p \in Paths : isVirtualPath(p)}

RealPaths == Paths \ VirtualPaths

Key(p) == Resolve(p.str)

\* This step is one fs call.
Called == nops' = nops + 1

Returned(c) == c.ret.kind = "return"

ThrewCode(r, code) == r.kind = "throw" /\ r.code = code

\* The messages of type t among evs, in order.
OfType(evs, t) == SelectSeq(evs, LAMBDA e : e.type = t)

\* The entries of the real plans directory.
DiskPlans == {k \in DOMAIN disk : StartsWith(k, PLANS_DIR)}

\* writeFileSync(tmp, C) was the last call and this step is renameSync(tmp, fin).
WriteThenRename(tmp, C, fin) ==
    /\ last.op = "writeFileSync"
    /\ last.args = <<tmp, Str(C)>>
    /\ Called
    /\ last'.op = "renameSync"
    /\ last'.args = <<tmp, fin>>

\* ------------------------------------------------------------ claims

\* C1: after writeFileSync(tmpPath, C) followed by renameSync(tmpPath,
\* finalPath) on two virtual paths (of different resolved form) and any text
\* C, the empty text included, existsSync(finalPath) is true,
\* readFileSync(finalPath, encoding) is C and existsSync(tmpPath) is false.
C1_RenameFinalizationState ==
    [][\A tmp \in VirtualPaths, fin \in VirtualPaths, C \in Texts :
          (Key(tmp) # Key(fin) /\ WriteThenRename(tmp, C, fin))
          => /\ (fs_existsSync(fin).ret = ReturnBoolean(TRUE))'
             /\ (fs_readFileSync(fin, Utf8).ret = ReturnString(C))'
             /\ (fs_existsSync(tmp).ret = ReturnBoolean(FALSE))']_vars

\* C2: with a channel, writeFileSync(tmpPath, C) followed by
\* renameSync(tmpPath, finalPath) on two virtual paths sends exactly one
\* plan_file_write message, after the vfs_write of the temp write, with the
\* resolved final path, its base name, content C and size the length of C.
C2_RenameFinalizationNotification ==
    [][\A tmp \in VirtualPaths, fin \in VirtualPaths, C \in Texts :
          (processSend /\ Key(tmp) # Key(fin) /\ WriteThenRename(tmp, C, fin))
          => /\ OfType(last.ev, "vfs_write") # <<>>
             /\ OfType(last.ev, "plan_file_write") = <<>>
             /\ events' = events \o last'.ev
             /\ LET sent == OfType(last'.ev, "plan_file_write")
                IN  /\ Len(sent) = 1
                    /\ sent[1].path = ResolveString(fin.str)
                    /\ sent[1].filename = BasenameString(ResolveString(fin.str))
                    /\ sent[1].content = C
                    /\ sent[1].size = Len(C)]_vars

\* C3: a write or a rename whose paths are all under the plans directory
\* leaves the set of entries of the real plans directory as it was, whatever
\* is written and whatever the directory held before.
C3_NoDiskWritesForVirtualPaths ==
    [][(/\ Called
        /\ last'.op \in {"writeFileSync", "renameSync"}
        /\ isVirtualPath(last'.args[1])
        /\ (last'.op = "renameSync" => isVirtualPath(last'.args[2])))
       => DiskPlans' = DiskPlans]_vars

\* C4: renameSync with both paths virtual calls no original fs function, in
\* every state of the Map (old key absent or holding empty content included).
C4_VirtualRenameNoDiskAccess ==
    [][(/\ Called
        /\ last'.op = "renameSync"
        /\ isVirtualPath(last'.args[1])
        /\ isVirtualPath(last'.args[2]))
       => last'.orig = <<>>]_vars

\* The content a rename of oldPath carries: the Map's for a virtual path,
\* the disk's for any other.
SourceHas(oldPath) ==
    Key(oldPath) \in DOMAIN (IF isVirtualPath(oldPath) THEN virtualFiles ELSE disk)

SourceContent(oldPath) ==
    IF isVirtualPath(oldPath) THEN virtualFiles[Key(oldPath)] ELSE disk[Key(oldPath)]

\* This step is renameSync(oldPath, newPath).
Renames(oldPath, newPath) ==
    Called /\ last'.op = "renameSync" /\ last'.args = <<oldPath, newPath>>

\* C5: a read of a virtual path P with an encoding right after write(P, C)
\* returns C (the empty text included); a rename into P that returns makes
\* the read return the content it carried; and nothing but a write, rename or
\* delete of P changes what the read of P returns.
C5_ReadAfterWrite ==
    [][Called =>
        /\ \A P \in VirtualPaths, C \in Texts :
              (last'.op = "writeFileSync" /\ last'.args = <<P, Str(C)>>)
              => (fs_readFileSync(P, Utf8).ret = ReturnString(C))'
        /\ \A old \in Paths, new \in VirtualPaths :
              (Renames(old, new) /\ Returned(last') /\ SourceHas(old))
              => (fs_readFileSync(new, Utf8).ret)' = ReturnString(SourceContent(old))
        /\ \A P \in VirtualPaths :
              (fs_readFileSync(P, Utf8).ret)' # fs_readFileSync(P, Utf8).ret
              => /\ last'.op \in {"writeFileSync", "renameSync", "unlinkSync"}
                 /\ \E i \in 1..Len(last'.args) :
                       /\ (last'.op = "writeFileSync" => i = 1)
                       /\ Key(last'.args[i]) = Key(P)]_vars

\* C6: renameSync from a virtual path to a non-virtual path leaves the Map as
\* it was, sends no message and is forwarded to the original renameSync.
C6_VirtualToRealRenameKeepsStore ==
    [][\A old \in VirtualPaths, new \in RealPaths :
          Renames(old, new)
          => /\ virtualFiles' = virtualFiles
             /\ last'.ev = <<>>
             /\ events' = events
             /\ last'.orig = <<OrigCall("renameSync", <<old, new>>, last'.ret)>>]_vars

\* C7: renameSync from a non-virtual path whose real read succeeds with
\* content C (the empty text included) to a virtual path leaves C in the Map
\* under the resolved new path and, with a channel, sends a plan_file_write
\* carrying C.
C7_RealToVirtualMigration ==
    [][\A old \in RealPaths, new \in VirtualPaths :
          (Renames(old, new) /\ Key(old) \in DOMAIN disk)
          => LET C == disk[Key(old)]
             IN  /\ Key(new) \in DOMAIN virtualFiles'
                 /\ virtualFiles'[Key(new)] = C
                 /\ processSend
                    => \E i \in 1..Len(last'.ev) :
                          /\ last'.ev[i].type = "plan_file_write"
                          /\ last'.ev[i].path = Key(new)
                          /\ last'.ev[i].content = C]_vars

\* The real unlink of the rename's source was tried and failed.
SourceUnlinkFailed(c) ==
    /\ Len(c.orig) >= 2
    /\ c.orig[2].fn = "unlinkSync"
    /\ Threw(c.orig[2].ret)

\* C8: in a real-to-virtual renameSync whose real read succeeds and whose real
\* unlink fails, the call returns, the content is in the Map under the new
\* key and, with a channel, the messages of the call are one vfs_error
\* (operation renameSync_unlink, resolved old path) followed by the
\* plan_file_write.
C8_SourceCleanupFailureNonFatal ==
    [][\A old \in RealPaths, new \in VirtualPaths :
          (Renames(old, new) /\ Key(old) \in DOMAIN disk /\ SourceUnlinkFailed(last'))
          => /\ Returned(last')
             /\ Key(new) \in DOMAIN virtualFiles'
             /\ virtualFiles'[Key(new)] = disk[Key(old)]
             /\ processSend
                => /\ Len(last'.ev) = 2
                   /\ last'.ev[1].type = "vfs_error"
                   /\ last'.ev[1].operation = "renameSync_unlink"
                   /\ last'.ev[1].path = Key(old)
                   /\ last'.ev[2].type = "plan_file_write"]_vars

Absent(P) == Key(P) \notin DOMAIN virtualFiles

\* C9: after write(P, C) followed by unlinkSync(P) on a virtual path the key
\* is gone; while the key of P is absent readFileSync(P) and statSync(P) fail
\* with ENOENT and existsSync(P) is false; and an absent key comes back only
\* by a write to P or a rename into P.
C9_DeleteThenReadFails ==
    [][\A P \in VirtualPaths :
        /\ (/\ last.op = "writeFileSync"
            /\ last.args[1] = P
            /\ Called
            /\ last'.op = "unlinkSync"
            /\ last'.args = <<P>>)
           => Returned(last') /\ Absent(P)'
        /\ Absent(P)'
           => /\ ThrewCode(fs_readFileSync(P, Utf8).ret, "ENOENT")'
              /\ ThrewCode(fs_readFileSync(P, Undefined).ret, "ENOENT")'
              /\ ThrewCode(fs_statSync(P).ret, "ENOENT")'
              /\ (fs_existsSync(P).ret = ReturnBoolean(FALSE))'
        /\ (Called /\ Absent(P) /\ last'.op \in {"readFileSync", "statSync"}
                   /\ last'.args[1] = P)
           => ThrewCode(last'.ret, "ENOENT")
        /\ (Called /\ Absent(P) /\ last'.op = "existsSync" /\ last'.args[1] = P)
           => last'.ret = ReturnBoolean(FALSE)
        /\ (Absent(P) /\ ~Absent(P)')
           => /\ Called
              /\ \/ last'.op = "writeFileSync" /\ Key(last'.args[1]) = Key(P)
                 \/ last'.op = "renameSync" /\ Key(last'.args[2]) = Key(P)]_vars

\* A read of a deleted plan file was made and failed: write, unlink, read.
C9_Witness ==
    /\ processSend
    /\ nops = 3
    /\ Len(events) = 3
    /\ events[2].type = "vfs_write" /\ events[2].path = Key(PA)
    /\ events[3].type = "vfs_unlink" /\ events[3].path = Key(PA)
    /\ last.op = "readFileSync"
    /\ last.args[1] = PA2
    /\ ThrewCode(last.ret, "ENOENT")

\* C10: unlinkSync on a virtual path whose key is present returns, removes
\* that key and no other, and hands one vfs_unlink with the resolved path to
\* the channel (nothing is sent when there is none); on an absent key it
\* raises ENOENT, leaves the Map as it was and sends nothing.  Neither case
\* calls an original fs function.
C10_DeleteOutcome ==
    [][\A P \in VirtualPaths :
          (Called /\ last'.op = "unlinkSync" /\ last'.args = <<P>>)
          => /\ last'.orig = <<>>
             /\ disk' = disk
             /\ events' = events \o last'.ev
             /\ IF Key(P) \in DOMAIN virtualFiles
                THEN /\ Returned(last')
                     /\ DOMAIN virtualFiles' = DOMAIN virtualFiles \ {Key(P)}
                     /\ \A k \in DOMAIN virtualFiles' : virtualFiles'[k] = virtualFiles[k]
                     /\ Len(last'.ev) = IF processSend THEN 1 ELSE 0
                     /\ \A i \in 1..Len(last'.ev) :
                           /\ last'.ev[i].type = "vfs_unlink"
                           /\ last'.ev[i].path = ResolveString(P.str)
                ELSE /\ ThrewCode(last'.ret, "ENOENT")
                     /\ virtualFiles' = virtualFiles
                     /\ last'.ev = <<>>]_vars

\* A present key was deleted (its vfs_unlink was sent) while another plan file
\* stayed, and a second delete of the same path raised ENOENT.
C10_Witness ==
    /\ processSend
    /\ OfType(events, "vfs_unlink") # <<>>
    /\ last.op = "unlinkSync"
    /\ isVirtualPath(last.args[1])
    /\ ThrewCode(last.ret, "ENOENT")

\* Largest content length for which the block count of Stats is compared
\* with the ceiling of size / 512.
MaxStatSize == 1025

\* blocks is the least b with 512 * b >= size.
BlocksAreCeil(st) ==
    /\ 512 * st.blocks >= st.size
    /\ st.blocks > 0 => 512 * (st.blocks - 1) < st.size

StatsBlocksAreCeil == \A n \in 0..MaxStatSize : BlocksAreCeil(Stats(n)) /\ Stats(n).size = n

\* C12: after write(P, C) on a virtual path statSync(P) succeeds with size
\* the length of C (the empty text included), isFile true, isDirectory false
\* and blocks = ceil(size / 512); statSync on a virtual path with no key
\* raises ENOENT; statSync leaves the Map as it was and sends no message.
C12_StatOfVirtualDocuments ==
    [][\A P \in VirtualPaths :
        /\ StatsBlocksAreCeil
        /\ \A C \in Texts :
              (Called /\ last'.op = "writeFileSync" /\ last'.args = <<P, Str(C)>>)
              => LET r == (fs_statSync(P).ret)'
                 IN  /\ r.kind = "return"
                     /\ r.type = "stats"
                     /\ r.stats.size = Len(C)
                     /\ r.stats.isFile
                     /\ ~r.stats.isDirectory
                     /\ BlocksAreCeil(r.stats)
        /\ (Called /\ last'.op = "statSync" /\ last'.args = <<P>>)
           => /\ virtualFiles' = virtualFiles
              /\ last'.ev = <<>>
              /\ events' = events
              /\ IF Absent(P)
                 THEN ThrewCode(last'.ret, "ENOENT")
                 ELSE /\ Returned(last')
                      /\ last'.ret.type = "stats"
                      /\ last'.ret.stats.size = Len(virtualFiles[Key(P)])
                      /\ last'.ret.stats.isFile
                      /\ ~last'.ret.stats.isDirectory
                      /\ BlocksAreCeil(last'.ret.stats)]_vars

\* statSync was called on a plan file written with a two-character content
\* and on one written with the empty text.
C12_Witness ==
    /\ processSend
    /\ nops = 3
    /\ Len(events) = 3
    /\ events[2].type = "vfs_write" /\ events[2].size = 0
    /\ events[3].type = "vfs_write" /\ events[3].size = 2
    /\ events[3].path = Key(PA)
    /\ last.op = "statSync"
    /\ last.args = <<PA2>>
    /\ Returned(last)
    /\ last.ret.stats.size = 2
    /\ last.ret.stats.blocks = 1

\* The call would end normally / would raise ENOENT.
Succeeds(eff) == eff.ret.kind = "return"

FailsENOENT(eff) == ThrewCode(eff.ret, "ENOENT")

\* C13: in every reachable state and for every virtual path P, existsSync(P)
\* returns a boolean (it never raises), true exactly when the resolved P is a
\* key of the Map, which is exactly when readFileSync(P), statSync(P) and
\* unlinkSync(P) would succeed and not fail with ENOENT.
C13_ExistenceConsistency ==
    \A P \in VirtualPaths :
        LET e      == fs_existsSync(P)
            exists == e.ret = ReturnBoolean(TRUE)
        IN  /\ e.ret \in {ReturnBoolean(TRUE), ReturnBoolean(FALSE)}
            /\ exists <=> ResolveString(P.str) \in DOMAIN virtualFiles
            /\ \A enc \in {Utf8, Undefined} :
                  /\ exists <=> Succeeds(fs_readFileSync(P, enc))
                  /\ ~exists <=> FailsENOENT(fs_readFileSync(P, enc))
            /\ exists <=> Succeeds(fs_statSync(P))
            /\ ~exists <=> FailsENOENT(fs_statSync(P))
            /\ \A denied \in BOOLEAN :
                  /\ exists <=> Succeeds(fs_unlinkSync(P, denied))
                  /\ ~exists <=> FailsENOENT(fs_unlinkSync(P, denied))
            /\ (last.op = "existsSync" /\ last.args = <<P>>) => last.ret = e.ret

\* existsSync answered true for a plan file in the Map while another plan
\* path has no key and the same file name exists on the real disk.
C13_Witness ==
    /\ last.op = "existsSync"
    /\ last.args = <<PB>>
    /\ last.ret = ReturnBoolean(TRUE)
    /\ Absent(PA)
    /\ Key(PA) \in DOMAIN disk

\* C17: with a channel at install time exactly one vfs_init (plansDir the
\* plans directory, mode "virtual") is sent over the whole run and it is the
\* first message; with no channel no vfs_init is ever sent.
C17_InitializationNotification ==
    IF processSend
    THEN /\ Len(events) >= 1
         /\ events[1].type = "vfs_init"
         /\ events[1].plansDir = PLANS_DIR
         /\ events[1].mode = "virtual"
         /\ Len(OfType(events, "vfs_init")) = 1
    ELSE OfType(events, "vfs_init") = <<>>

\* Three calls that each sent a message followed the init message.
C17_Witness ==
    /\ processSend
    /\ nops = 3
    /\ Len(events) = 4
    /\ events[1].type = "vfs_init"
    /\ {events[i].type : i \in 2..4} = {"vfs_write", "plan_file_write", "vfs_unlink"}

\* The path arguments of a call.
PathArgs(c) ==
    IF c.op = "renameSync" THEN {c.args[1], c.args[2]} ELSE {c.args[1]}

\* The arguments a call stands for: the asynchronous functions take the
\* callback in the place of the options when no options are given.
ForwardedArgs(c) ==
    IF c.op = "writeFile"
    THEN <<c.args[1], c.args[2], OptionsOf(c.args[3]), CallbackOf(c.args[3], c.args[4])>>
    ELSE IF c.op = "readFile"
    THEN <<c.args[1], OptionsOf(c.args[2]), CallbackOf(c.args[2], c.args[3])>>
    ELSE c.args

\* C14: a write, read, rename, exists, stat or unlink call whose path
\* arguments are all non-virtual leaves the Map as it was, sends no message,
\* queues and runs no callback of its own, and calls the corresponding
\* original function once, with the call's arguments, returning its result
\* or error as it is (a write followed by a read gives the written content
\* back from disk); and every vfs_write message carries a path under the
\* plans directory.
C14_PassThrough ==
    [][Called =>
        /\ (\A p \in PathArgs(last') : ~isVirtualPath(p))
           => /\ virtualFiles' = virtualFiles
              /\ last'.ev = <<>>
              /\ events' = events
              /\ Len(last'.orig) = 1
              /\ last'.orig[1].fn = last'.op
              /\ last'.orig[1].args = ForwardedArgs(last')
              /\ last'.orig[1].ret = last'.ret
              /\ ticks' = ticks
              /\ ran' = ran
              /\ \A P \in RealPaths, C \in Texts :
                    (last'.op = "writeFileSync" /\ last'.args = <<P, Str(C)>>)
                    => /\ ResolveString(P.str) \in DOMAIN disk'
                       /\ (fs_readFileSync(P, Utf8).ret)' = ReturnString(C)
        /\ \A i \in 1..Len(events') :
              events'[i].type = "vfs_write"
              => /\ Len(events'[i].path) >= Len(PLANS_DIR)
                 /\ \A j \in 1..Len(PLANS_DIR) : events'[i].path[j] = PLANS_DIR[j]]_vars

\* A file outside the plans directory was written and read back from disk
\* while the Map stayed empty and nothing but the init message was sent.
C14_Witness ==
    /\ processSend
    /\ nops = 2
    /\ last.op = "readFileSync"
    /\ last.args = <<PR, Utf8>>
    /\ last.ret = ReturnString(<<"y", "z">>)
    /\ Len(last.orig) = 1
    /\ virtualFiles = EmptyMap
    /\ Len(events) = 1

\* The key k is in the Map after the step iff it was before, with the same
\* content.
KeyUnchanged(k) ==
    /\ k \in DOMAIN virtualFiles' <=> k \in DOMAIN virtualFiles
    /\ k \in DOMAIN virtualFiles => virtualFiles'[k] = virtualFiles[k]

AllKeys == DOMAIN virtualFiles \cup DOMAIN virtualFiles'

\* C20: a virtual write changes only the key of its resolved path; a rename
\* between two virtual paths changes only the old key, which is removed, and
\* the new key, which then holds the content the old key held (replacing any
\* document stored there); a virtual delete changes only its own key; read,
\* exists and stat change no key.
C20_FrameOfStoreMutations ==
    [][Called =>
        /\ \A P \in VirtualPaths :
              (last'.op \in {"writeFileSync", "unlinkSync"} /\ last'.args[1] = P)
              => \A k \in AllKeys \ {Key(P)} : KeyUnchanged(k)
        /\ \A old \in VirtualPaths, new \in VirtualPaths :
              (last'.op = "renameSync" /\ last'.args = <<old, new>>)
              => /\ \A k \in AllKeys \ {Key(old), Key(new)} : KeyUnchanged(k)
                 /\ Key(old) # Key(new) => Key(old) \notin DOMAIN virtualFiles'
                 /\ Key(old) \in DOMAIN virtualFiles
                    => /\ Key(new) \in DOMAIN virtualFiles'
                       /\ virtualFiles'[Key(new)] = virtualFiles[Key(old)]
        /\ (last'.op \in {"readFileSync", "existsSync", "statSync"}
            /\ isVirtualPath(last'.args[1]))
           => virtualFiles' = virtualFiles]_vars

\* How many invocations of the callback cb the sequence q holds.
CountOf(q, cb) == Cardinality({i \in 1..Len(q) : q[i].callback = cb})

\* The callback cb has been run exactly once, with the arguments args, and
\* is not queued again.
RanOnceWith(cb, args) ==
    /\ CountOf(ran, cb) = 1
    /\ CountOf(ticks, cb) = 0
    /\ \E j \in 1..Len(ran) : ran[j] = Invocation(cb, args)

\* C15: writeFile on a virtual path, before it returns, sets the Store key to
\* the content and sends vfs_write (when there is a channel), runs no
\* callback and calls no real filesystem function; the callback is queued
\* once with the single argument null; after that the only change to the
\* queue, besides further calls appending to it, is the event loop moving
\* its oldest invocation to the callbacks run, so that no callback is run
\* twice or dropped; and the queue is empty again and again, so that every
\* queued callback is run.
C15_AsyncVirtualWrite ==
    /\ [][/\ Called =>
              \A P \in VirtualPaths, C \in Texts :
                 (last'.op = "writeFile" /\ last'.args[1] = P /\ last'.args[2] = Str(C))
                 => LET cb == CallbackOf(last'.args[3], last'.args[4])
                    IN  /\ Key(P) \in DOMAIN virtualFiles'
                        /\ virtualFiles'[Key(P)] = C
                        /\ last'.ret = ReturnUndefined
                        /\ last'.ev = IF processSend THEN <<VfsWrite(Key(P), C)>> ELSE <<>>
                        /\ events' = events \o last'.ev
                        /\ ran' = ran
                        /\ last'.orig = <<>>
                        /\ pending' = pending
                        /\ disk' = disk
                        /\ ticks' = IF cb.type = "function"
                                     THEN Append(ticks, Invocation(cb, <<Null>>))
                                     ELSE ticks
          /\ ~Called =>
                \/ ticks' = ticks
                \/ /\ ticks # <<>>
                   /\ ticks' = Tail(ticks)
                   /\ ran' = Append(ran, Head(ticks))
          /\ \A id \in 1..nops :
                /\ CountOf(ticks', Fn(id)) + CountOf(pending', Fn(id)) + CountOf(ran', Fn(id))
                   = CountOf(ticks, Fn(id)) + CountOf(pending, Fn(id)) + CountOf(ran, Fn(id))
                /\ CountOf(ran', Fn(id)) >= CountOf(ran, Fn(id))]_vars
    /\ []<>(ticks = <<>>)

C15_Witness ==
    /\ processSend /\ nops = 1 /\ last.op = "writeFile"
    /\ last.args = <<PA2, Str(<<"y", "z">>), Fn(1), Undefined>>
    /\ virtualFiles = MapSet(EmptyMap, Key(PA), <<"y", "z">>)
    /\ Len(events) = 2 /\ events[2].type = "vfs_write"
    /\ ticks = <<>> /\ RanOnceWith(Fn(1), <<Null>>)

\* C11: a read of a virtual path whose key is absent sends no message, leaves
\* the Map and the disk alone and calls no real function; readFileSync
\* raises an error with code ENOENT; readFile returns, runs no callback
\* itself and queues its callback, if it has one, with that error as the
\* only argument; and the event loop runs a queued callback with exactly the
\* arguments it was queued with.
C11_FailedVirtualRead ==
    [][/\ Called =>
          \A P \in VirtualPaths :
             (/\ last'.op \in {"readFileSync", "readFile"}
              /\ last'.args[1] = P
              /\ Key(P) \notin DOMAIN virtualFiles)
             => /\ last'.ev = <<>>
                /\ events' = events
                /\ virtualFiles' = virtualFiles
                /\ disk' = disk
                /\ last'.orig = <<>>
                /\ pending' = pending
                /\ ran' = ran
                /\ last'.op = "readFileSync"
                   => /\ ThrewCode(last'.ret, "ENOENT")
                      /\ ticks' = ticks
                /\ last'.op = "readFile"
                   => LET cb == CallbackOf(last'.args[2], last'.args[3])
                      IN  /\ last'.ret = ReturnUndefined
                          /\ ticks' = IF cb.type = "function"
                                       THEN Append(ticks,
                                                   Invocation(cb, <<ErrorValue("ENOENT")>>))
                                       ELSE ticks
       /\ (~Called /\ ticks' # ticks)
          => /\ ticks # <<>>
             /\ ticks' = Tail(ticks)
             /\ ran' = Append(ran, Head(ticks))]_vars

C11_Witness ==
    /\ processSend /\ nops = 2 /\ last.op = "readFile"
    /\ last.args = <<PB, Utf8, Fn(2)>>
    /\ virtualFiles = MapSet(EmptyMap, Key(PA), <<"x">>)
    /\ Len(events) = 2
    /\ ticks = <<>> /\ ran = <<Invocation(Fn(2), <<ErrorValue("ENOENT")>>)>>

\* The effects the call c can have when made with a channel (one for each
\* answer of the system to a real unlink).
WithChannel(c) ==
    IF c.op = "writeFileSync"
    THEN {AsyncEffect(fs_writeFileSyncOn(TRUE, c.args[1], c.args[2]), <<>>, <<>>)}
    ELSE IF c.op = "readFileSync"
    THEN {AsyncEffect(fs_readFileSyncOn(TRUE, c.args[1], c.args[2]), <<>>, <<>>)}
    ELSE IF c.op = "existsSync"
    THEN {AsyncEffect(fs_existsSync(c.args[1]), <<>>, <<>>)}
    ELSE IF c.op = "statSync"
    THEN {AsyncEffect(fs_statSync(c.args[1]), <<>>, <<>>)}
    ELSE IF c.op = "unlinkSync"
    THEN {AsyncEffect(fs_unlinkSyncOn(TRUE, c.args[1], denied), <<>>, <<>>) :
             denied \in BOOLEAN}
    ELSE IF c.op = "renameSync"
    THEN {AsyncEffect(fs_renameSyncOn(TRUE, c.args[1], c.args[2], denied), <<>>, <<>>) :
             denied \in BOOLEAN}
    ELSE IF c.op = "writeFile"
    THEN {fs_writeFileOn(TRUE, c.args[1], c.args[2], c.args[3], c.args[4])}
    ELSE {fs_readFileOn(TRUE, c.args[1], c.args[2], c.args[3])}

\* C16: when there is no channel, every call returns or raises the same,
\* leaves the same Map and disk, calls the same real functions and queues
\* the same callbacks as the same call made in the same state with a
\* channel, and it sends nothing; and no step at all, a later callback
\* included, adds a message: nothing was kept to deliver later.
C16_OptionalChannel ==
    [][~processSend =>
          /\ events' = <<>>
          /\ Called =>
                /\ last'.ev = <<>>
                /\ \E a \in WithChannel(last') :
                      /\ virtualFiles' = a.eff.vf
                      /\ disk' = a.eff.dk
                      /\ last'.ret = a.eff.ret
                      /\ last'.orig = a.eff.orig
                      /\ ticks' = ticks \o a.tick
                      /\ pending' = pending \o a.io
                      /\ ran' = ran]_vars

C16_Witness ==
    /\ ~processSend /\ nops = 3 /\ events = <<>>
    /\ last.op = "readFile" /\ last.args = <<PB, Utf8, Fn(3)>>
    /\ ticks = <<>> /\ ran = <<Invocation(Fn(3), <<Null, Str(<<"y", "z">>)>>)>>
    /\ virtualFiles = MapSet(EmptyMap, Key(PB), <<"y", "z">>)
    /\ \E a \in WithChannel(last) : a.eff.ev # <<>>

\* The content the Map is to hold for the data written: text as it is, a
\* Buffer decoded as UTF-8, anything else as the empty text.
StoredFor(data) ==
    IF data.type = "string" THEN data.str
    ELSE IF data.type = "buffer" THEN Utf8Decode(data.bytes)
    ELSE <<>>

\* C18: a writeFileSync or writeFile to a virtual path raises for no kind of
\* data, and leaves under the key the text itself, the UTF-8 decoding of a
\* Buffer, or the empty text for null, undefined, a number or a plain object.
C18_WriteDataCoercion ==
    [][Called =>
          \A P \in VirtualPaths :
             (last'.op \in {"writeFileSync", "writeFile"} /\ last'.args[1] = P)
             => /\ ~Threw(last'.ret)
                /\ Key(P) \in DOMAIN virtualFiles'
                /\ virtualFiles'[Key(P)] = StoredFor(last'.args[2])]_vars

\* An absolute path in normal form: it starts at the root and has no empty,
\* "." or ".." segment and no trailing separator.
IsNormalAbsolute(r) ==
    /\ Len(r) >= 1 /\ r[1] = "/"
    /\ \/ r = <<"/">>
       \/ \A i \in 2..Len(Segments(r)) :
             Segments(r)[i] \notin {<<>>, <<".">>, <<".", ".">>}

\* The string b begins with the string a, character by character.
IsPrefix(a, b) ==
    /\ Len(a) <= Len(b)
    /\ \A i \in 1..Len(a) : b[i] = a[i]

\* The non-empty strings the classifier runs try.
TriedStrings == (PathStrings \cup ShortStrings) \ {<<>>}

\* path.resolve gives an absolute path in normal form, which it leaves as
\* it is when given it again.
ResolveIsNormal ==
    \A x \in TriedStrings :
       /\ IsNormalAbsolute(ResolveString(x))
       /\ ResolveString(ResolveString(x)) = ResolveString(x)

\* Two strings with the same resolved path are classified alike.
ResolvedAlike ==
    \A x \in TriedStrings, y \in TriedStrings :
       Resolve(x) = Resolve(y) => isVirtualPath(Str(x)) = isVirtualPath(Str(y))

\* "/p/a" and "/p/./a" are virtual and have the same key, the sibling
\* "/pa/a" is virtual too, "/p/.." and "/a" are not, and "../p/a", resolved
\* against the working directory "/w", is.
ClassifiedExamples ==
    /\ isVirtualPath(Str(PLANS_DIR \o <<"/", "a">>))
    /\ isVirtualPath(Str(PLANS_DIR \o <<"/", ".", "/", "a">>))
    /\ ResolveString(PLANS_DIR \o <<"/", ".", "/", "a">>) = PLANS_DIR \o <<"/", "a">>
    /\ isVirtualPath(Str(PLANS_DIR \o <<"a", "/", "a">>))
    /\ ~isVirtualPath(Str(PLANS_DIR \o <<"/", ".", ".">>))
    /\ ~isVirtualPath(Str(<<"/", "a">>))
    /\ isVirtualPath(Str(<<".", ".">> \o PLANS_DIR \o <<"/", "a">>))
    /\ ~isVirtualPath(Str(<<"p", "/", "a">>))

C21_StoreKeyInvariant ==
    [][\A k \in DOMAIN virtualFiles' :
          /\ IsNormalAbsolute(k)
          /\ IsPrefix(PLANS_DIR, k)
          /\ k \notin DOMAIN virtualFiles
             => /\ Called
                /\ \E p \in PathArgs(last') : isVirtualPath(p) /\ Key(p) = k]_vars

\* A file of the real disk was renamed into the plans directory and is now
\* the only document of the Map.
C21_Witness ==
    /\ nops = 2
    /\ last.op = "renameSync"
    /\ last.args = <<PR, PA2>>
    /\ last.ret = ReturnUndefined
    /\ DOMAIN virtualFiles = {PLANS_DIR \o <<"/", "a">>}

\* C22: a call that names a virtual path and ends by raising an error leaves
\* the Map exactly as it was and sends no plan_file_write, vfs_write or
\* vfs_unlink message.
C22_FailureAtomicity ==
    [][(/\ Called
        /\ Threw(last'.ret)
        /\ \E p \in PathArgs(last') : isVirtualPath(p))
       => /\ virtualFiles' = virtualFiles
          /\ \A i \in 1..Len(last'.ev) :
                last'.ev[i].type \notin {"plan_file_write", "vfs_write", "vfs_unlink"}]_vars

\* What the callback of readFile(P, options) is to be given when the Map is
\* m at the call: the content under P's key, as text with an encoding and
\* as bytes without, or the ENOENT error alone when there is no key.
SnapshotArgs(m, P, options) ==
    IF Key(P) \notin DOMAIN m THEN <<ErrorValue("ENOENT")>>
    ELSE IF HasEncoding(options) THEN <<Null, Str(m[Key(P)])>>
    ELSE <<Null, Buf(Utf8Encode(m[Key(P)]))>>

\* C23: readFile on a virtual path, before it returns, queues its callback
\* once with the content the key holds at that moment (or with the ENOENT
\* error when there is no key), sends vfs_read then if there is a key and a
\* channel, and runs no callback; afterwards no step, whatever it writes,
\* renames or deletes, changes what is queued: the queue only grows at its
\* end and loses its oldest invocation to the callbacks run, unchanged, and
\* running a callback sends no message; and the queue is empty again and
\* again, so that every queued callback is run, once.
C23_AsyncReadSnapshot ==
    /\ [][/\ Called =>
              \A P \in VirtualPaths :
                 (last'.op = "readFile" /\ last'.args[1] = P)
                 => LET cb   == CallbackOf(last'.args[2], last'.args[3])
                        opts == OptionsOf(last'.args[2])
                    IN  /\ ticks' = IF cb.type = "function"
                                     THEN Append(ticks,
                                                 Invocation(cb, SnapshotArgs(virtualFiles,
                                                                             P, opts)))
                                     ELSE ticks
                        /\ last'.ev = IF processSend /\ Key(P) \in DOMAIN virtualFiles
                                      THEN <<VfsRead(Key(P), virtualFiles[Key(P)])>>
                                      ELSE <<>>
                        /\ events' = events \o last'.ev
                        /\ ran' = ran
                        /\ virtualFiles' = virtualFiles
                        /\ last'.ret = ReturnUndefined
                        /\ last'.orig = <<>>
          /\ Called =>
                /\ ran' = ran
                /\ Len(ticks') >= Len(ticks)
                /\ SubSeq(ticks', 1, Len(ticks)) = ticks
          /\ ~Called =>
                /\ events' = events
                /\ virtualFiles' = virtualFiles
                /\ \/ ticks' = ticks
                   \/ /\ ticks # <<>>
                      /\ ticks' = Tail(ticks)
                      /\ ran' = Append(ran, Head(ticks))
          /\ \A id \in 1..nops :
                CountOf(ticks', Fn(id)) + CountOf(pending', Fn(id)) + CountOf(ran', Fn(id))
                = CountOf(ticks, Fn(id)) + CountOf(pending, Fn(id)) + CountOf(ran, Fn(id))]_vars
    /\ []<>(ticks = <<>>)

\* A document was read with readFile and deleted before the callback ran;
\* the callback got the content the document had at the call.
C23_Witness ==
    /\ processSend /\ nops = 3
    /\ last.op = "unlinkSync" /\ last.args = <<PB>> /\ last.ret = ReturnUndefined
    /\ virtualFiles = EmptyMap
    /\ ticks = <<>>
    /\ ran = <<Invocation(Fn(2), <<Null, Str(<<"y", "z">>)>>)>>
    /\ Len(events) = 4 /\ events[3].type = "vfs_read" /\ events[4].type = "vfs_unlink"

\* The places in the messages sent of the vfs_write and plan_file_write
\* messages for the key k.
WritesOf(k) ==
    {i \in 1..Len(events) :
        /\ events[i].type \in {"vfs_write", "plan_file_write"}
        /\ events[i].path = k}

Latest(S) == CHOOSE i \in S : \A j \in S : j <= i

\* C24: with a channel, in every reachable state each key of the Map has a
\* vfs_write or plan_file_write message, the latest of them carries the
\* content the Map holds under the key and its length as size, and no
\* vfs_unlink message for the key was sent after it.
C24_ObserverAgreement ==
    processSend =>
        \A k \in DOMAIN virtualFiles :
            /\ WritesOf(k) # {}
            /\ LET m == Latest(WritesOf(k))
               IN  /\ events[m].content = virtualFiles[k]
                   /\ events[m].size = Len(virtualFiles[k])
                   /\ \A j \in (m + 1)..Len(events) :
                         ~(events[j].type = "vfs_unlink" /\ events[j].path = k)

\* A plan file was written and then replaced by a rename of another one:
\* the older vfs_write for its key carries content the Map no longer holds.
C24_Witness ==
    /\ processSend /\ nops = 3
    /\ last.op = "renameSync" /\ last.args = <<PB, PA2>>
    /\ virtualFiles = MapSet(EmptyMap, Key(PA), <<"y", "z">>)
    /\ Len(events) = 4
    /\ events[2].type = "vfs_write" /\ events[2].path = Key(PA)
    /\ events[2].content = <<"x">>
    /\ events[4].type = "plan_file_write"

====
